---- MODULE Spec2Model ----
(***************************************************************************)
(* Model of job_recommender.py: the token normalizer (_normalize), the     *)
(* rule-based scorer (_score_job), the external ranking adapter            *)
(* (_gpt_rank) and the strategy selector (recommend_jobs).                 *)
(*                                                                         *)
(* Python strings are sequences of one-character strings, so that strip,   *)
(* lower, split, substring search and lexicographic order are computed.    *)
(* Optional values are records [some, val]; None is some = FALSE.          *)
(* Scores are kept in hundredths (an integer), the unit round(score, 2)    *)
(* produces.                                                               *)
(***************************************************************************)
EXTENDS Integers, Sequences, FiniteSets, TLC

VARIABLES
    \* _normalize under test
    tokens, normalized, renormalized, npc,
    \* _score_job under test
    sprofile, sjob, srec, sprofile2, srec2, spc,
    \* one call of recommend_jobs
    pc, profile, jobs, top_k, use_gpt, environ, text, result, gpt_calls, via, fault

normVars == <<tokens, normalized, renormalized, npc>>
scoreVars == <<sprofile, sjob, srec, sprofile2, srec2, spc>>
callVars == <<pc, profile, jobs, top_k, use_gpt, environ, text, result, gpt_calls, via, fault>>
vars == <<normVars, scoreVars, callVars>>

----------------------------------------------------------------------------
(* Bounds *)

\* longest token list handed to _normalize
MaxTokens == 3
\* longest job list of a call
MaxJobs == 2
\* largest top_k of a call
MaxTopK == 2
\* most entries in the external response's "recommendations" list
MaxItems == 2

----------------------------------------------------------------------------
(* Strings *)

\* the characters of the model in code-point order: tab, space, upper, lower
Chars == <<"\t", " ",
           "A", "B", "C", "D", "E", "F", "G", "H", "I", "J", "K", "L", "M",
           "N", "O", "P", "Q", "R", "S", "T", "U", "V", "W", "X", "Y", "Z",
           "a", "b", "c", "d", "e", "f", "g", "h", "i", "j", "k", "l", "m",
           "n", "o", "p", "q", "r", "s", "t", "u", "v", "w", "x", "y", "z">>

\* ord(c), up to the offset of the first character
OrdOf == [c \in {Chars[i] : i \in DOMAIN Chars} |-> CHOOSE i \in DOMAIN Chars : Chars[i] = c]

Ord(c) == OrdOf[c]

IsSpace(c) == c \in {"\t", " "}

IsUpper(c) == Ord(c) >= Ord("A") /\ Ord(c) <= Ord("Z")

\* str.lower on one character
LowerChar(c) == IF IsUpper(c) THEN Chars[Ord(c) + (Ord("a") - Ord("A"))] ELSE c

\* str.lower
Lower(s) == [i \in DOMAIN s |-> LowerChar(s[i])]

RECURSIVE LStrip(_)
LStrip(s) == IF s # <<>> /\ IsSpace(Head(s)) THEN LStrip(Tail(s)) ELSE s

RECURSIVE RStrip(_)
RStrip(s) ==
    IF s # <<>> /\ IsSpace(s[Len(s)]) THEN RStrip(SubSeq(s, 1, Len(s) - 1)) ELSE s

\* str.strip
Strip(s) == RStrip(LStrip(s))

\* str.split(): the maximal runs of non-whitespace characters, in order
RECURSIVE SplitFrom(_, _, _)
SplitFrom(s, cur, acc) ==
    IF s = <<>> THEN (IF cur = <<>> THEN acc ELSE Append(acc, cur))
    ELSE IF IsSpace(Head(s))
         THEN SplitFrom(Tail(s), <<>>, IF cur = <<>> THEN acc ELSE Append(acc, cur))
         ELSE SplitFrom(Tail(s), Append(cur, Head(s)), acc)

Split(s) == SplitFrom(s, <<>>, <<>>)

\* needle in hay
Contains(hay, needle) ==
    \E i \in 0..(Len(hay) - Len(needle)) :
        SubSeq(hay, i + 1, i + Len(needle)) = needle

\* a < b for Python strings
RECURSIVE StrLess(_, _)
StrLess(a, b) ==
    IF b = <<>> THEN FALSE
    ELSE IF a = <<>> THEN TRUE
    ELSE IF Head(a) = Head(b) THEN StrLess(Tail(a), Tail(b))
    ELSE Ord(Head(a)) < Ord(Head(b))

Range(f) == {f[i] : i \in DOMAIN f}

\* sorted(S) for a set of strings
RECURSIVE SortedStrings(_)
SortedStrings(S) ==
    IF S = {} THEN <<>>
    ELSE LET m == CHOOSE x \in S : \A y \in S \ {x} : StrLess(x, y)
         IN  <<m>> \o SortedStrings(S \ {m})

----------------------------------------------------------------------------
(* _normalize *)

\* a faulty variant: the set comprehension without strip()
NormalizeNoStrip(toks) ==
    SortedStrings({Lower(token) : token \in {t \in Range(toks) :
                        t # <<>> /\ Strip(t) # <<>>}})

\* sorted({token.strip().lower() for token in tokens if token and token.strip()})
Normalize(toks) ==
    SortedStrings({Lower(Strip(token)) : token \in {t \in Range(toks) :
                        t # <<>> /\ Strip(t) # <<>>}})

----------------------------------------------------------------------------
(* Records *)

\* Optional[...]: None and a present value
None == [some |-> FALSE, val |-> <<>>]
Some(v) == [some |-> TRUE, val |-> v]
NoneNum == [some |-> FALSE, val |-> 0]

\* truthiness of an Optional[str] or Optional[List[str]]: neither None nor empty
Truthy(o) == o.some /\ o.val # <<>>

\* truthiness of an Optional[float]: neither None nor 0
TruthyNum(o) == o.some /\ o.val # 0

\* CandidateProfile (name is read by no rule and is left out)
CandidateProfile(skills, titles, location, remote_only, min_comp, level, industries) ==
    [skills |-> skills, desired_titles |-> titles, location |-> location,
     remote_only |-> remote_only, min_compensation |-> min_comp,
     experience_level |-> level, industries |-> industries]

\* JobPosting (company and description are read by no rule and are left out)
JobPosting(id, title, skills, location, remote, compensation, level, industry) ==
    [id |-> id, title |-> title, skills |-> skills, location |-> location,
     remote |-> remote, compensation |-> compensation,
     experience_level |-> level, industry |-> industry]

\* Recommendation; score in hundredths, rationale a string
Recommendation(job, score, rationale) ==
    [job |-> job, score |-> score, rationale |-> rationale]

----------------------------------------------------------------------------
(* _score_job *)

SKILL_WEIGHT == 60
TITLE_BONUS == 15
REMOTE_BONUS == 10
REMOTE_PENALTY == 20
LOCATION_BONUS == 10
COMPENSATION_BONUS == 10
COMPENSATION_PENALTY == 10
EXPERIENCE_BONUS == 5
INDUSTRY_BONUS == 5
\* round(score, 2) keeps hundredths
HUNDREDTHS == 100

Max(a, b) == IF a >= b THEN a ELSE b

\* "; ".join(bits)
RECURSIVE Join(_)
Join(bits) ==
    IF bits = <<>> THEN ""
    ELSE IF Len(bits) = 1 THEN bits[1]
    ELSE bits[1] \o "; " \o Join(Tail(bits))

\* round(num / den, 2) in hundredths, den > 0. Every operand of the sum is a
\* small integer or len(overlap) / len(job_skills) * 60, so the float sum is
\* within rounding error of num / den and round() picks the nearest hundredth;
\* an exact tie (den a multiple of 32) is exactly representable and goes to
\* the even neighbour.
Round2(num, den) ==
    LET n == HUNDREDTHS * num
        lo == n \div den
        r == n - lo * den
    IN  IF 2 * r < den THEN lo
        ELSE IF 2 * r > den THEN lo + 1
        ELSE IF lo % 2 = 0 THEN lo ELSE lo + 1

\* score += pts (pts over the common denominator den); rationale_bits.append(bit)
Fire(acc, pts, bit) == [acc EXCEPT !.num = @ + pts, !.bits = Append(@, bit)]

\* a faulty variant: a remote mismatch costs what a match earns
RemoteRuleSymmetric(acc, den, p, j) ==
    IF p.remote_only
    THEN IF j.remote THEN Fire(acc, REMOTE_BONUS * den, "remote friendly")
         ELSE Fire(acc, (0 - REMOTE_BONUS) * den, "not remote")
    ELSE acc

\* lines 69-75
RemoteRule(acc, den, p, j) ==
    IF p.remote_only
    THEN IF j.remote THEN Fire(acc, REMOTE_BONUS * den, "remote friendly")
         ELSE Fire(acc, (0 - REMOTE_PENALTY) * den, "not remote")
    ELSE acc

\* a faulty variant: the ratio counts the job's skills the profile does not cover
SkillRuleUncovered(acc, den, overlap) ==
    IF overlap # {}
    THEN Fire(acc, SKILL_WEIGHT * (den - Cardinality(overlap)),
              ToString(Cardinality(overlap)) \o " skill matches")
    ELSE acc

\* lines 56-59; num is over den = max(len(job_skills), 1)
SkillRule(acc, den, overlap) ==
    IF overlap # {}
    THEN Fire(acc, SKILL_WEIGHT * Cardinality(overlap),
              ToString(Cardinality(overlap)) \o " skill matches")
    ELSE acc

\* lines 61-67
TitleRule(acc, den, p, j) ==
    LET desired_titles == Range(Normalize(p.desired_titles))
    IN  IF desired_titles # {}
        THEN LET title_tokens == Range(Normalize(Split(j.title)))
             IN  IF desired_titles \cap title_tokens # {}
                 THEN Fire(acc, TITLE_BONUS * den, "title matches target")
                 ELSE acc
        ELSE acc

\* lines 77-80
LocationRule(acc, den, p, j) ==
    IF Truthy(p.location) /\ Truthy(j.location)
    THEN IF Contains(Lower(j.location.val), Lower(p.location.val))
         THEN Fire(acc, LOCATION_BONUS * den, "location match")
         ELSE acc
    ELSE acc

\* lines 82-88
CompensationRule(acc, den, p, j) ==
    IF TruthyNum(p.min_compensation) /\ TruthyNum(j.compensation)
    THEN IF j.compensation.val >= p.min_compensation.val
         THEN Fire(acc, COMPENSATION_BONUS * den, "meets compensation floor")
         ELSE Fire(acc, (0 - COMPENSATION_PENALTY) * den, "below compensation target")
    ELSE acc

\* lines 90-93
ExperienceRule(acc, den, p, j) ==
    IF Truthy(p.experience_level) /\ Truthy(j.experience_level)
    THEN IF Lower(p.experience_level.val) = Lower(j.experience_level.val)
         THEN Fire(acc, EXPERIENCE_BONUS * den, "experience level match")
         ELSE acc
    ELSE acc

\* lines 95-98
IndustryRule(acc, den, p, j) ==
    IF Truthy(p.industries) /\ Truthy(j.industry)
    THEN IF Lower(j.industry.val) \in Range(Normalize(p.industries.val))
         THEN Fire(acc, INDUSTRY_BONUS * den, "industry preference")
         ELSE acc
    ELSE acc

ScoreJob(p, j) ==
    LET profile_skills == Range(Normalize(p.skills))
        job_skills == Range(Normalize(j.skills))
        overlap == profile_skills \cap job_skills
        den == Max(Cardinality(job_skills), 1)
        a0 == [num |-> 0, bits |-> <<>>]
        a1 == SkillRule(a0, den, overlap)
        a2 == TitleRule(a1, den, p, j)
        a3 == RemoteRule(a2, den, p, j)
        a4 == LocationRule(a3, den, p, j)
        a5 == CompensationRule(a4, den, p, j)
        a6 == ExperienceRule(a5, den, p, j)
        a7 == IndustryRule(a6, den, p, j)
        rationale_bits == IF a7.bits = <<>> THEN <<"general fit">> ELSE a7.bits
    IN  Recommendation(j, Round2(a7.num, den), Join(rationale_bits))

----------------------------------------------------------------------------
(* The strings the inputs are drawn from *)

W_Python == <<"P", "y", "t", "h", "o", "n">>
W_python == <<"p", "y", "t", "h", "o", "n">>
W_PYTHON_padded == <<" ", "P", "Y", "T", "H", "O", "N", " ">>
W_sql == <<"s", "q", "l">>
W_SQL_tabbed == <<"\t", "S", "Q", "L">>
W_blank == <<" ">>
W_empty == <<>>
W_go == <<"g", "o">>
W_rust == <<"r", "u", "s", "t">>
W_js == <<"j", "s">>
W_ml == <<"m", "l">>
W_qa == <<"q", "a">>
W_css == <<"c", "s", "s">>
W_java == <<"j", "a", "v", "a">>
W_ruby == <<"r", "u", "b", "y">>
W_engineer == <<"e", "n", "g", "i", "n", "e", "e", "r">>
W_Backend_Engineer == <<"B", "a", "c", "k", "e", "n", "d", " ", "E", "n", "g", "i", "n", "e", "e", "r">>
W_Data_Analyst == <<"D", "a", "t", "a", " ", "A", "n", "a", "l", "y", "s", "t">>
W_nyc == <<"n", "y", "c">>
W_NYC_NY == <<"N", "Y", "C", " ", "N", "Y">>
W_Austin == <<"A", "u", "s", "t", "i", "n">>
W_Senior == <<"S", "e", "n", "i", "o", "r">>
W_senior == <<"s", "e", "n", "i", "o", "r">>
W_junior == <<"j", "u", "n", "i", "o", "r">>
W_Tech_padded == <<"T", "e", "c", "h", " ">>
W_tech == <<"t", "e", "c", "h">>
W_finance == <<"f", "i", "n", "a", "n", "c", "e">>

----------------------------------------------------------------------------
(* _normalize applied to bounded inputs, then to its own output *)

RawTokens == {W_Python, W_python, W_PYTHON_padded, W_sql, W_SQL_tabbed, W_blank, W_empty}

TokenLists == UNION {[1..n -> RawTokens] : n \in 0..MaxTokens}

IdleNorm ==
    /\ tokens = <<>> /\ normalized = <<>> /\ renormalized = <<>> /\ npc = "idle"

IdleScore ==
    /\ sprofile = <<>> /\ sjob = <<>> /\ srec = <<>>
    /\ sprofile2 = <<>> /\ srec2 = <<>> /\ spc = "idle"

IdleCall ==
    /\ pc = "idle" /\ profile = <<>> /\ jobs = <<>> /\ top_k = 0
    /\ use_gpt = "None" /\ environ = <<>> /\ text = <<>> /\ result = <<>>
    /\ gpt_calls = 0 /\ via = "none" /\ fault = "none"

InitNorm ==
    /\ tokens \in TokenLists
    /\ normalized = <<>> /\ renormalized = <<>> /\ npc = "input"
    /\ IdleScore /\ IdleCall

\* normalized = _normalize(tokens)
NormalizeOnce ==
    /\ npc = "input"
    /\ normalized' = Normalize(tokens)
    /\ npc' = "once"
    /\ UNCHANGED <<tokens, renormalized, scoreVars, callVars>>

\* renormalized = _normalize(normalized)
NormalizeTwice ==
    /\ npc = "once"
    /\ renormalized' = Normalize(normalized)
    /\ npc' = "twice"
    /\ UNCHANGED <<tokens, normalized, scoreVars, callVars>>

NextNorm == NormalizeOnce \/ NormalizeTwice

SpecNorm == InitNorm /\ [][NextNorm]_vars

\* C9: _normalize returns the strictly ascending (sorted, duplicate-free)
\* sequence of exactly the trimmed lower-cased non-blank entries, and
\* normalizing that output again returns it unchanged.
C9_NormalizeSortedDedupedIdempotent ==
    /\ npc \in {"once", "twice"} =>
        /\ \A i \in 1..(Len(normalized) - 1) : StrLess(normalized[i], normalized[i + 1])
        /\ \A i \in DOMAIN normalized :
              /\ normalized[i] # <<>>
              /\ ~IsSpace(normalized[i][1])
              /\ ~IsSpace(normalized[i][Len(normalized[i])])
              /\ \A k \in DOMAIN normalized[i] : ~IsUpper(normalized[i][k])
              /\ \E j \in DOMAIN tokens : normalized[i] = Lower(Strip(tokens[j]))
        /\ \A j \in DOMAIN tokens :
              (\E k \in DOMAIN tokens[j] : ~IsSpace(tokens[j][k]))
                  => \E i \in DOMAIN normalized : normalized[i] = Lower(Strip(tokens[j]))
    /\ npc = "twice" => renormalized = normalized

\* ["Python", "python", " PYTHON "] has been normalized to ["python"], twice
C9_Witness ==
    /\ npc = "twice"
    /\ tokens = <<W_Python, W_python, W_PYTHON_padded>>
    /\ normalized = <<W_python>>
    /\ renormalized = <<W_python>>

----------------------------------------------------------------------------
(* _score_job applied to bounded inputs, then to the profile with one more *)
(* skill                                                                   *)

\* most distinct skills of a job
MaxSkills == 7

\* distinct normalized skills, more than any bound in use
SkillPool == <<W_python, W_sql, W_go, W_rust, W_js, W_ml, W_qa, W_css, W_java, W_ruby>>

JobSkillLists ==
    {SubSeq(SkillPool, 1, m) : m \in {0, 2, 3, MaxSkills}}
        \cup {<<W_Python, W_PYTHON_padded, W_SQL_tabbed, W_go>>}

ProfileSkillLists ==
    {<<>>, <<W_PYTHON_padded>>, <<W_python, W_sql>>, <<W_ruby, W_empty>>}

\* <<profile.desired_titles, job.title>>
TitleCases ==
    {<< <<>>, W_Backend_Engineer >>,
     << <<W_engineer>>, W_Backend_Engineer >>,
     << <<W_engineer>>, W_Data_Analyst >>}

\* <<profile.remote_only, job.remote>>
RemoteCases == {<<FALSE, FALSE>>, <<TRUE, TRUE>>, <<TRUE, FALSE>>}

\* <<profile.location, job.location>>
LocationCases ==
    {<<None, None>>, <<Some(W_nyc), Some(W_NYC_NY)>>, <<Some(W_nyc), Some(W_Austin)>>}

\* <<profile.min_compensation, job.compensation>>
CompensationCases ==
    {<<NoneNum, NoneNum>>, <<Some(100000), Some(80000)>>,
     <<Some(100000), Some(100000)>>, <<Some(0), Some(80000)>>}

\* <<profile.experience_level, job.experience_level>>
ExperienceCases ==
    {<<None, None>>, <<Some(W_Senior), Some(W_senior)>>, <<Some(W_senior), Some(W_junior)>>}

\* <<profile.industries, job.industry>>
IndustryCases ==
    {<<None, None>>, <<Some(<<>>), Some(W_tech)>>,
     <<Some(<<W_Tech_padded>>), Some(W_tech)>>, <<Some(<<W_tech>>), Some(W_finance)>>}

InitScore ==
    /\ \E ps \in ProfileSkillLists, js \in JobSkillLists, t \in TitleCases,
          r \in RemoteCases, l \in LocationCases, c \in CompensationCases,
          e \in ExperienceCases, i \in IndustryCases :
        /\ sprofile = CandidateProfile(ps, t[1], l[1], r[1], c[1], e[1], i[1])
        /\ sjob = JobPosting("j1", t[2], js, l[2], r[2], c[2], e[2], i[2])
    /\ srec = <<>> /\ sprofile2 = <<>> /\ srec2 = <<>> /\ spc = "input"
    /\ IdleNorm /\ IdleCall

\* srec = _score_job(sprofile, sjob)
Score ==
    /\ spc = "input"
    /\ srec' = ScoreJob(sprofile, sjob)
    /\ spc' = "scored"
    /\ UNCHANGED <<sprofile, sjob, sprofile2, srec2, normVars, callVars>>

\* a skill of the job that the overlap does not count yet, as the caller
\* may spell it, is added to profile.skills and the job is scored again
AddSkill ==
    /\ spc = "scored"
    /\ \E t \in Range(SkillPool) \cup {W_Python, W_SQL_tabbed} :
        /\ Lower(Strip(t)) \in Range(Normalize(sjob.skills))
        /\ Lower(Strip(t)) \notin Range(Normalize(sprofile.skills))
        /\ sprofile2' = [sprofile EXCEPT !.skills = Append(@, t)]
    /\ srec2' = ScoreJob(sprofile2', sjob)
    /\ spc' = "rescored"
    /\ UNCHANGED <<sprofile, sjob, srec, normVars, callVars>>

NextScore == Score \/ AddSkill

SpecScore == InitScore /\ [][NextScore]_vars

\* the scenarios of the contract, as predicates on the inputs under test
NoOtherData ==
    /\ ~sprofile.location.some /\ ~sjob.location.some
    /\ ~sprofile.min_compensation.some /\ ~sjob.compensation.some
    /\ ~sprofile.experience_level.some /\ ~sjob.experience_level.some
    /\ ~sprofile.industries.some /\ ~sjob.industry.some

ScenarioA ==
    /\ sprofile.skills = <<W_python, W_sql>> /\ sprofile.desired_titles = <<W_engineer>>
    /\ sjob.skills = <<W_python, W_sql>> /\ sjob.title = W_Backend_Engineer
    /\ ~sjob.remote /\ ~sprofile.remote_only /\ NoOtherData

ScenarioB ==
    /\ sprofile.remote_only /\ ~sjob.remote
    /\ sprofile.skills = <<W_ruby, W_empty>> /\ sprofile.desired_titles = <<>>
    /\ NoOtherData

ScenarioC ==
    /\ sprofile.min_compensation = Some(100000) /\ sjob.compensation = Some(80000)
    /\ sprofile.skills = <<>> /\ sprofile.desired_titles = <<>>
    /\ ~sprofile.remote_only
    /\ ~sprofile.location.some /\ ~sprofile.experience_level.some
    /\ ~sprofile.industries.some

ScenarioD ==
    /\ sprofile.skills = <<>> /\ sjob.skills = <<>> /\ sprofile.desired_titles = <<>>
    /\ ~sprofile.remote_only /\ ~sjob.remote /\ NoOtherData

\* the rules of the contract in their fixed order, each with whether it fires
\* on (p, j), its points and its rationale fragment; the skill rule's points
\* are 60 * k / m and are given as the pair num / den
ContractRules(p, j) ==
    LET ps == Range(Normalize(p.skills))
        js == Range(Normalize(j.skills))
        k == Cardinality(ps \cap js)
        m == Max(Cardinality(js), 1)
        rule(fires, num, den, bit) ==
            [fires |-> fires, num |-> num, den |-> den, bit |-> bit]
        bothStr(a, b) == a.some /\ b.some /\ a.val # <<>> /\ b.val # <<>>
        bothNum == /\ p.min_compensation.some /\ j.compensation.some
                   /\ p.min_compensation.val # 0 /\ j.compensation.val # 0
    IN  << rule(k > 0, 60 * k, m, ToString(k) \o " skill matches"),
           rule(Range(Normalize(p.desired_titles))
                    \cap Range(Normalize(Split(j.title))) # {},
                15, 1, "title matches target"),
           rule(p.remote_only /\ j.remote, 10, 1, "remote friendly"),
           rule(p.remote_only /\ ~j.remote, -20, 1, "not remote"),
           rule(bothStr(p.location, j.location)
                    /\ Contains(Lower(j.location.val), Lower(p.location.val)),
                10, 1, "location match"),
           rule(bothNum /\ j.compensation.val >= p.min_compensation.val,
                10, 1, "meets compensation floor"),
           rule(bothNum /\ j.compensation.val < p.min_compensation.val,
                -10, 1, "below compensation target"),
           rule(bothStr(p.experience_level, j.experience_level)
                    /\ Lower(p.experience_level.val) = Lower(j.experience_level.val),
                5, 1, "experience level match"),
           rule(bothStr(p.industries, j.industry)
                    /\ Lower(j.industry.val) \in Range(Normalize(p.industries.val)),
                5, 1, "industry preference") >>

\* the fragments of the rules that fire, in order, joined by "; "
RECURSIVE FiredFragments(_)
FiredFragments(rs) ==
    IF rs = <<>> THEN ""
    ELSE LET rest == FiredFragments(Tail(rs))
         IN  IF ~Head(rs).fires THEN rest
             ELSE IF rest = "" THEN Head(rs).bit
             ELSE Head(rs).bit \o "; " \o rest

\* the sum of the points of the rules that fire, times d (d a multiple of
\* every rule's denominator)
RECURSIVE FiredSumTimes(_, _)
FiredSumTimes(rs, d) ==
    IF rs = <<>> THEN 0
    ELSE (IF Head(rs).fires THEN Head(rs).num * (d \div Head(rs).den) ELSE 0)
            + FiredSumTimes(Tail(rs), d)

Abs(x) == IF x < 0 THEN 0 - x ELSE x

\* C7 as stated: the returned score is the sum of the contributions of the
\* rules that fire (and the rationale their fragments in order, "general fit"
\* with score 0.0 exactly when none fires).
C7_ScoreIsExactSum ==
    spc = "scored" =>
        LET rs == ContractRules(sprofile, sjob)
            d == rs[1].den
        IN  srec.score * d = 100 * FiredSumTimes(rs, d)

\* C7 amended: the returned score is the sum of the contributions of the
\* rules that fire rounded to two decimal places (within half a hundredth of
\* the sum); the rationale is the fired rules' fragments in the fixed order
\* joined by "; "; rationale "general fit" with score 0.0 if and only if no
\* rule fired; Scenarios A-D give 75.0, -20.0, -10.0 and 0.0.
C7_ScoreIsRoundedSumOfFiredRules ==
    spc = "scored" =>
        LET rs == ContractRules(sprofile, sjob)
            d == rs[1].den
            none == \A i \in DOMAIN rs : ~rs[i].fires
        IN  /\ srec.job = sjob
            /\ 2 * Abs(srec.score * d - 100 * FiredSumTimes(rs, d)) <= d
            /\ srec.rationale = (IF none THEN "general fit" ELSE FiredFragments(rs))
            /\ (srec.rationale = "general fit" /\ srec.score = 0) <=> none
            /\ (ScenarioA => srec.score = 7500
                    /\ srec.rationale = "2 skill matches; title matches target")
            /\ (ScenarioB => srec.score = -2000 /\ srec.rationale = "not remote")
            /\ (ScenarioC => srec.score = -1000
                    /\ srec.rationale = "below compensation target")
            /\ (ScenarioD => srec.score = 0 /\ srec.rationale = "general fit")

\* one of seven job skills matched and the remote rule fired against: the
\* sum 60/7 - 20 is not a whole number of hundredths and is returned as -11.43
C7_Witness ==
    /\ spc = "scored"
    /\ Cardinality(Range(Normalize(sjob.skills))) = 7
    /\ srec.score = -1143
    /\ srec.rationale = "1 skill matches; not remote"

\* C8: adding to profile.skills a skill of the job that the overlap did not
\* count never lowers the job's score.
C8_AddingJobSkillNeverLowersScore ==
    spc = "rescored" => srec2.score >= srec.score

\* a skill was added and the score rose
C8_Witness ==
    /\ spc = "rescored"
    /\ Len(sprofile2.skills) = Len(sprofile.skills) + 1
    /\ srec2.score > srec.score

----------------------------------------------------------------------------
(* recommend_jobs and _gpt_rank *)

Min(a, b) == IF a <= b THEN a ELSE b

\* xs[:k] for k >= 0
Take(xs, k) == SubSeq(xs, 1, Min(k, Len(xs)))

\* the position list.sort(key=score, reverse=True) gives rec among the
\* already sorted recs: after every entry that scores at least as high (the
\* sort is stable, and reverse=True keeps equal keys in their input order)
RECURSIVE InsertDescending(_, _)
InsertDescending(sorted, rec) ==
    IF sorted = <<>> THEN <<rec>>
    ELSE IF Head(sorted).score >= rec.score
         THEN <<Head(sorted)>> \o InsertDescending(Tail(sorted), rec)
         ELSE <<rec>> \o sorted

\* a faulty variant: reverse=True left out
RECURSIVE InsertAscending(_, _)
InsertAscending(sorted, rec) ==
    IF sorted = <<>> THEN <<rec>>
    ELSE IF Head(sorted).score <= rec.score
         THEN <<Head(sorted)>> \o InsertAscending(Tail(sorted), rec)
         ELSE <<rec>> \o sorted

\* a faulty variant of line 127: an ascending sort
SortAscending(recs) ==
    LET RECURSIVE go(_, _)
        go(done, rest) ==
            IF rest = <<>> THEN done
            ELSE go(InsertAscending(done, Head(rest)), Tail(rest))
    IN  go(<<>>, recs)

\* line 127: scored.sort(key=lambda rec: rec.score, reverse=True)
SortByScore(recs) ==
    LET RECURSIVE go(_, _)
        go(done, rest) ==
            IF rest = <<>> THEN done
            ELSE go(InsertDescending(done, Head(rest)), Tail(rest))
    IN  go(<<>>, recs)

\* lines 126-128
RankDeterministic(p, js, k) ==
    Take(SortByScore([i \in DOMAIN js |-> ScoreJob(p, js[i])]), k)

\* os.getenv(name, default)
Getenv(env, name, default) == IF env[name].some THEN env[name].val ELSE default

W_true == <<"t", "r", "u", "e">>
W_false == <<"f", "a", "l", "s", "e">>

\* lines 114-115: the resolved use_gpt
ResolveUseGpt(ug, env) ==
    IF ug = "None"
    THEN Lower(Getenv(env, "USE_GPT_RECOMMENDER", W_false)) = W_true
    ELSE ug = "True"

\* a faulty variant: the credential is not looked at
ShouldAttemptWithoutKey(ug, env) == ResolveUseGpt(ug, env)

\* line 118: use_gpt and os.getenv("OPENAI_API_KEY")
ShouldAttempt(ug, env) == ResolveUseGpt(ug, env) /\ Truthy(env["OPENAI_API_KEY"])

\* the exceptions the external path raises, all subclasses of Exception
ExceptionClasses ==
    {"OpenAIError", "APIError", "AttributeError", "TypeError", "ValueError"}

\* a faulty variant: except ValueError
CaughtIfValueError(exc) == exc = "ValueError"

\* line 123: except Exception
Caught(exc) == exc \in ExceptionClasses

\* lines 119-124 around an exception leaving _gpt_rank: absorbed, the
\* deterministic path follows; an exception the clause does not name would
\* leave recommend_jobs
AfterException(exc) == IF Caught(exc) THEN "score" ELSE "raised"

\* lookup = {job.id: job for job in jobs}; lookup.get(id): the last job with
\* that id, None when there is none or the entry has no id
Lookup(js, id) ==
    LET hits == {i \in DOMAIN js : id.some /\ js[i].id = id.val}
    IN  IF hits = {} THEN None
        ELSE Some(js[CHOOSE i \in hits : \A h \in hits : h <= i])

\* a faulty variant: float(item.get("score")), the default left out
ItemScoreNoDefault(item) ==
    IF item.score.tag = "missing" THEN [raised |-> "TypeError", val |-> 0]
    ELSE IF item.score.tag = "number" THEN [raised |-> "none", val |-> item.score.val]
    ELSE [raised |-> "ValueError", val |-> 0]

\* float(item.get("score", 0)): [raised, val]
ItemScore(item) ==
    IF item.score.tag = "missing" THEN [raised |-> "none", val |-> 0]
    ELSE IF item.score.tag = "number" THEN [raised |-> "none", val |-> item.score.val]
    ELSE [raised |-> "ValueError", val |-> 0]

\* str(item.get("rationale", ""))
ItemRationale(item) == IF item.rationale.some THEN item.rationale.val ELSE ""

\* a faulty variant: an entry whose id matches no job is kept, under a made-up job
ResolveOrInvent(js, id) ==
    IF Lookup(js, id).some THEN Lookup(js, id)
    ELSE Some(JobPosting(IF id.some THEN id.val ELSE "", <<>>, <<>>, None, FALSE,
                         NoneNum, None, None))

\* line 183: job = lookup.get(item.get("id"))
Resolve(js, id) == Lookup(js, id)

\* lines 182-192: [raised, recs] after the loop over the entries
RECURSIVE CollectRecommendations(_, _, _)
CollectRecommendations(items, js, acc) ==
    IF items = <<>> THEN [raised |-> "none", recs |-> acc]
    ELSE LET item == Head(items) IN
         IF item.shape # "dict" THEN [raised |-> "AttributeError", recs |-> acc]
         ELSE LET job == Resolve(js, item.id) IN
              IF ~job.some THEN CollectRecommendations(Tail(items), js, acc)
              ELSE IF ItemScore(item).raised # "none"
                   THEN [raised |-> ItemScore(item).raised, recs |-> acc]
                   ELSE CollectRecommendations(Tail(items), js,
                            Append(acc, Recommendation(job.val, ItemScore(item).val,
                                                       ItemRationale(item))))

\* a faulty variant: recommendations[:top_k + 1]
GptTruncateOneMore(recs, k) == Take(recs, k + 1)

\* line 194: recommendations[:top_k]
GptTruncate(recs, k) == Take(recs, k)

\* lines 175-194 on the response text t: [raised, recs, fault]
ParseAndCollect(t, js, k) ==
    IF t.kind = "unparsable"
    THEN [raised |-> "none", recs |-> <<>>, fault |-> "unparsable"]
    ELSE IF t.kind = "not_object"
    THEN [raised |-> "AttributeError", recs |-> <<>>, fault |-> "wrong_shape"]
    ELSE IF t.kind = "not_iterable"
    THEN [raised |-> "TypeError", recs |-> <<>>, fault |-> "wrong_shape"]
    ELSE LET items == IF t.kind = "no_key" THEN <<>> ELSE t.recs
             c == CollectRecommendations(items, js, <<>>)
         IN  IF c.raised # "none"
             THEN [raised |-> c.raised, recs |-> <<>>, fault |-> "wrong_shape"]
             ELSE [raised |-> "none", recs |-> GptTruncate(c.recs, k),
                   fault |-> IF GptTruncate(c.recs, k) = <<>> THEN "empty" ELSE "none"]

----------------------------------------------------------------------------
(* One call of recommend_jobs *)

\* the candidate of the calls: python and sql, wants an engineer title, remote only
TheProfile ==
    CandidateProfile(<<W_python, W_sql>>, <<W_engineer>>, None, TRUE, NoneNum, None, None)

\* the postings the job lists are drawn from: j1 scores 85.0, j2 and j3 0.0
\* each (a tie), j4 below zero
Catalogue ==
    << JobPosting("j1", W_Backend_Engineer, <<W_python, W_sql>>, None, TRUE,
                  NoneNum, None, None),
       JobPosting("j2", W_Data_Analyst, <<W_sql, W_go, W_rust>>, None, FALSE,
                  NoneNum, None, None),
       JobPosting("j3", W_Data_Analyst, <<W_Python, W_js, W_ml>>, None, FALSE,
                  NoneNum, None, None),
       JobPosting("j4", W_Data_Analyst, <<>>, None, FALSE, NoneNum, None, None) >>

\* job lists: up to MaxJobs postings with distinct ids, in any order
JobLists ==
    {[i \in DOMAIN ix |-> Catalogue[ix[i]]] :
        ix \in {f \in UNION {[1..n -> DOMAIN Catalogue] : n \in 0..MaxJobs} :
                    \A a, b \in DOMAIN f : a # b => f[a] # f[b]}}

W_True == <<"T", "r", "u", "e">>
W_one == <<"o", "n", "e">>
W_key == <<"s", "k">>

\* os.environ: the two variables recommend_jobs reads
Environ(flag, key) ==
    [n \in {"USE_GPT_RECOMMENDER", "OPENAI_API_KEY"} |->
        IF n = "USE_GPT_RECOMMENDER" THEN flag ELSE key]

\* <<use_gpt argument, USE_GPT_RECOMMENDER>>: no argument with the variable
\* unset, set to "True" and set to "one"; the argument against the variable
FlagCases ==
    {<<"None", None>>, <<"None", Some(W_True)>>, <<"None", Some(W_one)>>,
     <<"True", None>>, <<"False", Some(W_True)>>}

\* OPENAI_API_KEY: unset, empty, set
KeyCases == {None, Some(<<>>), Some(W_key)}

\* an entry of the response's "recommendations" list
Item(shape, id, score, rationale) ==
    [shape |-> shape, id |-> id, score |-> score, rationale |-> rationale]

Number(v) == [tag |-> "number", val |-> v]
MissingScore == [tag |-> "missing", val |-> 0]
BadScore == [tag |-> "bad", val |-> 0]
NoId == [some |-> FALSE, val |-> ""]
NoRationale == [some |-> FALSE, val |-> ""]

\* the entries a response is made of: well-formed ones, one without score
\* and rationale, one with an id of no job (an entry without id resolves the
\* same way: lookup.get(None) is None), one whose score is no number, one
\* that is no object
Items ==
    {Item("dict", Some("j1"), Number(9000), Some("strong match")),
     Item("dict", Some("j2"), Number(9500), Some("stronger match")),
     Item("dict", Some("j1"), MissingScore, NoRationale),
     Item("dict", Some("zz"), Number(9900), Some("no such job")),
     Item("dict", Some("j2"), BadScore, Some("score is a word")),
     Item("other", NoId, MissingScore, NoRationale)}

Response(kind, recs) == [kind |-> kind, recs |-> recs]

NoText == Response("none", <<>>)

\* the response texts: not JSON; JSON that is no object; an object without
\* "recommendations"; "recommendations" that cannot be iterated; a list of
\* up to MaxItems entries
Texts ==
    {Response(k, <<>>) : k \in {"unparsable", "not_object", "no_key", "not_iterable"}}
        \cup {Response("list", r) : r \in UNION {[1..n -> Items] : n \in 0..MaxItems}}

Init ==
    /\ pc = "start"
    /\ profile = TheProfile
    /\ jobs \in JobLists
    /\ top_k \in 0..MaxTopK
    /\ \E f \in FlagCases, key \in KeyCases :
        use_gpt = f[1] /\ environ = Environ(f[2], key)
    /\ text = NoText /\ result = <<>>
    /\ gpt_calls = 0 /\ via = "none" /\ fault = "none"
    /\ IdleNorm /\ IdleScore

\* lines 114-118: resolve use_gpt and choose the path
Select ==
    /\ pc = "start"
    /\ IF ShouldAttempt(use_gpt, environ)
       THEN pc' = "gpt_import" /\ gpt_calls' = gpt_calls + 1
       ELSE pc' = "score" /\ UNCHANGED gpt_calls
    /\ UNCHANGED <<profile, jobs, top_k, use_gpt, environ, text, result, via, fault>>
    /\ UNCHANGED <<normVars, scoreVars>>

\* lines 136-139: the client library cannot be imported; _gpt_rank returns []
ImportFails ==
    /\ pc = "gpt_import"
    /\ pc' = "score" /\ fault' = "import_failed"
    /\ UNCHANGED <<profile, jobs, top_k, use_gpt, environ, text, result, gpt_calls, via>>
    /\ UNCHANGED <<normVars, scoreVars>>

\* line 137: the import succeeds
ImportSucceeds ==
    /\ pc = "gpt_import"
    /\ pc' = "gpt_client"
    /\ UNCHANGED <<profile, jobs, top_k, use_gpt, environ, text, result, gpt_calls, via, fault>>
    /\ UNCHANGED <<normVars, scoreVars>>

\* lines 141-163: the client is built and the request is sent
ClientSends ==
    /\ pc = "gpt_client"
    /\ pc' = "await_responses"
    /\ UNCHANGED <<profile, jobs, top_k, use_gpt, environ, text, result, gpt_calls, via, fault>>
    /\ UNCHANGED <<normVars, scoreVars>>

\* line 141: OpenAI() raises; the exception leaves _gpt_rank
ClientRaises ==
    /\ pc = "gpt_client"
    /\ pc' = AfterException("OpenAIError") /\ fault' = "client_raised"
    /\ UNCHANGED <<profile, jobs, top_k, use_gpt, environ, text, result, gpt_calls, via>>
    /\ UNCHANGED <<normVars, scoreVars>>

\* lines 157-164: the service answers client.responses.create
ResponsesReturns ==
    /\ pc = "await_responses"
    /\ text' \in Texts
    /\ pc' = "gpt_parse"
    /\ UNCHANGED <<profile, jobs, top_k, use_gpt, environ, result, gpt_calls, via, fault>>
    /\ UNCHANGED <<normVars, scoreVars>>

\* lines 165-172: client.responses.create raises; the chat request is sent
ResponsesRaises ==
    /\ pc = "await_responses"
    /\ pc' = "await_chat"
    /\ UNCHANGED <<profile, jobs, top_k, use_gpt, environ, text, result, gpt_calls, via, fault>>
    /\ UNCHANGED <<normVars, scoreVars>>

\* lines 166-173: the service answers client.chat.completions.create
ChatReturns ==
    /\ pc = "await_chat"
    /\ text' \in Texts
    /\ pc' = "gpt_parse"
    /\ UNCHANGED <<profile, jobs, top_k, use_gpt, environ, result, gpt_calls, via, fault>>
    /\ UNCHANGED <<normVars, scoreVars>>

\* line 166: client.chat.completions.create raises too; the exception leaves
\* _gpt_rank
ChatRaises ==
    /\ pc = "await_chat"
    /\ pc' = AfterException("APIError") /\ fault' = "service_raised"
    /\ UNCHANGED <<profile, jobs, top_k, use_gpt, environ, text, result, gpt_calls, via>>
    /\ UNCHANGED <<normVars, scoreVars>>

\* lines 175-194 and 120-124: parse, collect, truncate; a non-empty list is
\* returned as it is, an empty one or an exception leads to the scorer
ParseAndReturn ==
    /\ pc = "gpt_parse"
    /\ LET r == ParseAndCollect(text, jobs, top_k) IN
        /\ fault' = r.fault
        /\ IF r.raised # "none"
           THEN pc' = AfterException(r.raised) /\ UNCHANGED <<result, via>>
           ELSE IF r.recs # <<>>
                THEN pc' = "done" /\ result' = r.recs /\ via' = "external"
                ELSE pc' = "score" /\ UNCHANGED <<result, via>>
    /\ UNCHANGED <<profile, jobs, top_k, use_gpt, environ, text, gpt_calls>>
    /\ UNCHANGED <<normVars, scoreVars>>

\* lines 126-128: score every job, sort, return the first top_k
Deterministic ==
    /\ pc = "score"
    /\ result' = RankDeterministic(profile, jobs, top_k)
    /\ via' = "deterministic"
    /\ pc' = "done"
    /\ UNCHANGED <<profile, jobs, top_k, use_gpt, environ, text, gpt_calls, fault>>
    /\ UNCHANGED <<normVars, scoreVars>>

\* the steps _gpt_rank takes by itself
GptRankStep ==
    \/ ImportFails
    \/ ImportSucceeds
    \/ ClientSends
    \/ ClientRaises
    \/ ParseAndReturn

\* control is inside the call of line 120
InGptRank ==
    pc \in {"gpt_import", "gpt_client", "await_responses", "await_chat", "gpt_parse"}

\* the steps of the program
Program ==
    \/ Select
    \/ GptRankStep
    \/ Deterministic

\* the answers of the external service; the requests of lines 157 and 166
\* carry no timeout, and nothing obliges the service to answer
Service ==
    \/ ResponsesReturns
    \/ ResponsesRaises
    \/ ChatReturns
    \/ ChatRaises

Next == Program \/ Service

Spec == Init /\ [][Next]_vars

----------------------------------------------------------------------------
(* Claims about recommend_jobs *)

\* result is ordered by descending score
SortedDescending(recs) ==
    \A i \in 1..(Len(recs) - 1) : recs[i].score >= recs[i + 1].score

\* the resolved use_gpt, in the words of the contract: the argument when it
\* is given, else whether the configured flag reads "true" in any case
FlagOn ==
    \/ use_gpt = "True"
    \/ /\ use_gpt = "None"
       /\ environ["USE_GPT_RECOMMENDER"].some
       /\ Lower(environ["USE_GPT_RECOMMENDER"].val) = <<"t", "r", "u", "e">>

\* the credential is set to something
KeyPresent ==
    environ["OPENAI_API_KEY"].some /\ Len(environ["OPENAI_API_KEY"].val) > 0

\* C1: when the external strategy is not attempted, the returned list has
\* exactly min(top_k, n) recommendations, each the scorer's record of a
\* different input job, in descending order of score, and no omitted job
\* scores higher than a returned one.
C1_DeterministicLengthAndOrder ==
    (pc = "done" /\ gpt_calls = 0) =>
        /\ Len(result) = Min(top_k, Len(jobs))
        /\ SortedDescending(result)
        /\ \A i \in DOMAIN result :
              /\ result[i].job \in Range(jobs)
              /\ result[i] = ScoreJob(profile, result[i].job)
        /\ \A a, b \in DOMAIN result : a # b => result[a].job # result[b].job
        /\ \A j \in Range(jobs) :
              (\A i \in DOMAIN result : result[i].job # j)
                  => \A i \in DOMAIN result : ScoreJob(profile, j).score <= result[i].score

\* top_k = 1 over two jobs given lowest first: the higher one is returned
C1_Witness ==
    /\ pc = "done" /\ gpt_calls = 0
    /\ top_k = 1 /\ Len(jobs) = 2
    /\ ScoreJob(profile, jobs[1]).score < ScoreJob(profile, jobs[2]).score
    /\ Len(result) = 1 /\ result[1].job = jobs[2]

\* C2: _gpt_rank is called only when the resolved use_gpt is true and the
\* credential is present; without the credential it is never called and the
\* returned list is the deterministic ranking, the list a call with
\* use_gpt = false returns.
C2_ExternalOnlyWithFlagAndKey ==
    /\ gpt_calls > 0 => (FlagOn /\ KeyPresent)
    /\ (pc = "done" /\ ~KeyPresent) =>
          /\ gpt_calls = 0
          /\ via = "deterministic"
          /\ result = RankDeterministic(profile, jobs, top_k)

\* use_gpt = true without the credential: the call has returned a ranking
C2_Witness ==
    /\ pc = "done" /\ use_gpt = "True" /\ ~KeyPresent
    /\ gpt_calls = 0 /\ result # <<>>

\* C3: when the attempted external strategy fails (import, both service
\* calls, unparsable text, wrong shape, empty resolved list), nothing is
\* raised to the caller and the returned list is the deterministic ranking
\* over the full job list.
C3_FailureFallsBackSilently ==
    /\ pc # "raised"
    /\ (gpt_calls > 0 /\ fault # "none") => pc \in {"score", "done"}
    /\ (pc = "done" /\ fault # "none") =>
          /\ via = "deterministic"
          /\ result = RankDeterministic(profile, jobs, top_k)

\* a response of the wrong shape was received and a ranking was returned
C3_Witness ==
    /\ pc = "done" /\ gpt_calls = 1 /\ fault = "wrong_shape"
    /\ via = "deterministic" /\ Len(result) = 2

\* C4: every returned recommendation's job is one of the call's input jobs;
\* on the external path it is the input job whose id a response entry
\* names, and no entry with an id of no input job appears.
C4_ReferentialIntegrity ==
    pc = "done" =>
        \A i \in DOMAIN result :
            /\ result[i].job \in Range(jobs)
            /\ via = "external" =>
                  \E k \in DOMAIN text.recs :
                      /\ text.recs[k].id.some
                      /\ text.recs[k].id.val = result[i].job.id

\* a response naming an unknown id and a known one was returned without the
\* unknown one
C4_Witness ==
    /\ pc = "done" /\ via = "external"
    /\ \E k \in DOMAIN text.recs : text.recs[k].id = Some("zz")
    /\ Len(result) = 1 /\ result[1].job \in Range(jobs)

\* C5 as stated: every returned list is ordered by descending score and has
\* length min(top_k, number of input jobs), whichever strategy produced it.
C5_EveryResultSortedAndFull ==
    pc = "done" =>
        /\ SortedDescending(result)
        /\ Len(result) = Min(top_k, Len(jobs))

\* C5 amended: every returned list has at most top_k entries; a list the
\* deterministic scorer produced is ordered by descending score and has
\* length min(top_k, number of input jobs); an external result is returned
\* as collected, non-empty.
C5_LengthBoundedAndDeterministicSorted ==
    pc = "done" =>
        /\ Len(result) <= top_k
        /\ via = "deterministic" =>
              /\ SortedDescending(result)
              /\ Len(result) = Min(top_k, Len(jobs))
        /\ via = "external" => Len(result) >= 1

\* an external result in ascending order of score was returned as it came
C5_Witness ==
    /\ pc = "done" /\ via = "external"
    /\ Len(result) = 2 /\ result[1].score < result[2].score

\* an entry that lacks score or rationale, or names no input job
MalformedEntry(item) ==
    /\ item.shape = "dict"
    /\ \/ item.score.tag = "missing"
       \/ ~item.rationale.some
       \/ \A j \in Range(jobs) : ~(item.id.some /\ item.id.val = j.id)

C10_ExternalCallNeverWaitsUnbounded ==
    InGptRank => ENABLED GptRankStep

====
